---- MODULE Spec2Model ----
(***************************************************************************)
(* A model of sentinels/sentinels.py: the Sentinel class, its process-wide *)
(* registry and lock, and the _get_parent_frame helper.                    *)
(*                                                                         *)
(* Python strings are sequences of one-character strings, so that the      *)
(* registry key (an f-string joined with '-') and name.split('.') are      *)
(* computed character by character, as the code computes them.  None,      *)
(* True and False are one-element sequences holding a token that is not a  *)
(* character, so they differ from every string.                            *)
(***************************************************************************)
EXTENDS Integers, Sequences, FiniteSets, TLC

VARIABLES
    registry,   \* _registry: dict from registry key to instance (a heap index)
    lock,       \* _lock: 0 when free, else the thread that holds it
    gpf,        \* the function the global name _get_parent_frame is bound to
    env,        \* what the interpreter supports: which frame lookups work
    heap,       \* every Sentinel instance ever allocated, by identity
    pc,         \* each thread's position in Sentinel.__new__
    loc,        \* each thread's local variables in Sentinel.__new__
    returned    \* history: what the calls made so far have returned

vars == <<registry, lock, gpf, env, heap, pc, loc, returned>>

-----------------------------------------------------------------------------
(* Bounds of the model. *)

NumThreads == 2
MaxInst == 2

-----------------------------------------------------------------------------
(* Python values. *)

None == <<"None">>
True == <<"True">>
False == <<"False">>
Unset == <<"Unset">>     \* an attribute that has not been assigned yet

\* bool(x) of a str or None, as used by "if repr" and "if not module_name"
Truthy(x) == x # None /\ x # <<>>

\* str(x) of a str or None
Str(x) == IF x = None THEN <<"N", "o", "n", "e">> ELSE x

\* s.split(".")[-1]: the part of s after its last '.'
RECURSIVE LastSegment(_)
LastSegment(s) ==
    IF s = <<>> THEN <<>>
    ELSE IF s[Len(s)] = "." THEN <<>>
    ELSE Append(LastSegment(SubSeq(s, 1, Len(s) - 1)), s[Len(s)])

\* line 58: f'<{name.split(".")[-1]}>'
DefaultRepr(name) == <<"<">> \o LastSegment(name) \o <<">">>

\* line 58: str(repr) if repr else f'<...>'
ReprOf(repr, name) == IF Truthy(repr) THEN Str(repr) ELSE DefaultRepr(name)

-----------------------------------------------------------------------------
(* Modules, classes and frames. *)

\* __name__ of the module that defines Sentinel
SentinelsName == <<"s", "e", "n", "t", "i", "n", "e", "l", "s">>
\* the value f_globals.get('__name__', '__main__') falls back to
MainName == <<"_", "_", "m", "a", "i", "n", "_", "_">>
\* the module whose frame calls the class when a sentinel is copied
CopyName == <<"c", "o", "p", "y">>

\* A class object: its identity and the two attributes the key is built from.
SentinelCls == [id |-> 0, module |-> SentinelsName,
                qualname |-> <<"S", "e", "n", "t", "i", "n", "e", "l">>]

\* lines 69-71: the registry key (sys.intern returns an equal string)
RegistryKey(cls, module_name, name) ==
    cls.module \o <<"-">> \o cls.qualname \o <<"-">> \o module_name
        \o <<"-">> \o name

\* The call stack inside _get_parent_frame, innermost frame first, as the
\* __name__ entry of each frame's globals (None when the globals have none):
\* `nested` frames of _get_parent_frame itself, then __new__, then the caller.
Stack(nested, caller) ==
    [i \in 1..nested |-> SentinelsName] \o <<SentinelsName, caller>>

\* the frame two frames up from the innermost one, None when there is none
TwoUp(stack) == IF Len(stack) >= 3 THEN <<"frame", stack[3]>> ELSE None

\* line 120: sys._getframe(2), which an interpreter without it cannot run
GetFrame(e, stack) ==
    IF e # "getframe" THEN [frame |-> None, exc |-> "AttributeError"]
    ELSE IF Len(stack) < 3 THEN [frame |-> None, exc |-> "ValueError"]
    ELSE [frame |-> TwoUp(stack), exc |-> "none"]

\* Mutant of OriginalCatches: a handler for ValueError alone.
CatchesValueError == {"ValueError"}

\* line 121: the exceptions the first _get_parent_frame handles
OriginalCatches == {"AttributeError", "ValueError"}

\* lines 123-135: the traceback-based fallback, running `nested` frames of
\* _get_parent_frame deep; when it fails it installs the function that
\* returns None (lines 132-134) and calls it
Fallback(e, nested, caller, cur) ==
    IF e = "traceback"
    THEN [frame |-> TwoUp(Stack(nested, caller)), gpf |-> cur, exc |-> "none"]
    ELSE [frame |-> None, gpf |-> "none", exc |-> "none"]

\* lines 116-136: the function bound to _get_parent_frame when __new__ looked
\* the name up (fn), called from __new__, itself called by `caller`, while
\* the global name is bound to cur: the frame it returns, the binding it
\* leaves behind, and the exception that leaves it, if any
GetParentFrame(fn, e, caller, cur) ==
    CASE fn = "original" ->
            LET r == GetFrame(e, Stack(1, caller))
            IN IF r.exc = "none"
               THEN [frame |-> r.frame, gpf |-> cur, exc |-> "none"]
               ELSE IF r.exc \in OriginalCatches
               THEN Fallback(e, 2, caller, "fallback")
               ELSE [frame |-> None, gpf |-> cur, exc |-> r.exc]
      [] fn = "fallback" -> Fallback(e, 1, caller, cur)
      [] OTHER -> [frame |-> None, gpf |-> cur, exc |-> "none"]

\* lines 61-65: the module name taken from the parent frame
InferredModuleName(parent_frame) ==
    IF parent_frame # None
    THEN (IF parent_frame[2] = None THEN MainName ELSE parent_frame[2])
    ELSE SentinelsName

-----------------------------------------------------------------------------
(* Methods of an instance s (a record of the heap). *)

IsAmbiguous == <<" ", "i", "s", " ", "a", "m", "b", "i", "g", "u", "o", "u", "s", ".">>

\* Mutant of Bool: a sentinel with no truthy given counts as true.
BoolDefaultsTrue(s) ==
    [raises |-> "none", msg |-> None,
     value |-> IF s._truthy = None THEN True ELSE s._truthy]

\* lines 83-87: __bool__
Bool(s) ==
    IF s._truthy = None
    THEN [raises |-> "ValueError", msg |-> s._name \o IsAmbiguous,
          value |-> None]
    ELSE [raises |-> "none", msg |-> None, value |-> s._truthy]

\* lines 89-90: __repr__
Repr(s) == s._repr

\* Mutant of ReduceOf: a recipe that leaves the module name out.
ReduceOfNameOnly(s) ==
    [callable |-> s.cls, args |-> <<s._name, s._repr, None>>]

\* lines 92-100: __reduce__, the callable and its arguments
ReduceOf(s) == [callable |-> s.cls, args |-> <<s._name, s._repr, s._module_name>>]

\* A reference to instance i, as a value that can be compared with others.
Ref(i) == <<"ref", i>>
IsRef(v) == Len(v) = 2 /\ v[1] = "ref"
Ellipsis == <<"Ellipsis">>

\* Mutant of Eq: equality by what the values look like, a sentinel being
\* equal to its name, to its repr and to any sentinel with the same attributes.
EqByValue(x, y) ==
    LET Val(v) == IF IsRef(v)
                  THEN {heap[v[2]]._name, heap[v[2]]._repr}
                  ELSE {v}
    IN Val(x) \cap Val(y) # {}

\* x == y where Sentinel defines no __eq__ (lines 29-100): object.__eq__
\* compares identities, and no str, None or Ellipsis equals an instance
Eq(x, y) ==
    IF IsRef(x) /\ IsRef(y) THEN x[2] = y[2]
    ELSE IF IsRef(x) \/ IsRef(y) THEN FALSE
    ELSE x = y

-----------------------------------------------------------------------------
(* State. *)

Threads == 1..NumThreads

\* a call's arguments, and the module whose code makes the call
Args(cls, name, repr, module_name, truthy, caller) ==
    [cls |-> cls, name |-> name, repr |-> repr, module_name |-> module_name,
     truthy |-> truthy, caller |-> caller]

\* The locals of __new__ are cls, name, repr, module_name, truthy,
\* registry_key and sentinel; fn is the function line 60 found under the
\* name _get_parent_frame; ret is the value returned.  args (the call as it
\* was made) and orig (the instance being copied, 0 for a plain call) are
\* history.
NoLocals ==
    [cls |-> SentinelCls, name |-> None, repr |-> None, module_name |-> None,
     truthy |-> None, fn |-> "original", registry_key |-> None,
     sentinel |-> 0, ret |-> 0,
     args |-> Args(SentinelCls, None, None, None, None, None), orig |-> 0]

Envs == {"getframe", "traceback", "none"}

InitIn(E) ==
    /\ registry = <<>>
    /\ lock = 0
    /\ gpf = "original"
    /\ env \in E
    /\ heap = <<>>
    /\ pc = [t \in Threads |-> "idle"]
    /\ loc = [t \in Threads |-> NoLocals]
    /\ returned = {}

Registered == {registry[k] : k \in DOMAIN registry}

\* threads that have entered __new__ and may still allocate an instance
MayAllocate == {t \in Threads : pc[t] \in {"frame", "get", "new"}}

-----------------------------------------------------------------------------
(* Sentinel.__new__, one action per step. *)

\* lines 57-60: coerce name and repr; with a module name given go on to the
\* key (lines 69-71), else look up the global _get_parent_frame to call it.
\* A call starts only while the heap has room for the instance it may build
\* (MaxInst), unless it is sure to find its key in the registry.
Enter(t, a, orig) ==
    /\ pc[t] \in {"idle", "done", "raised"}
    /\ LET name == Str(a.name)
           repr == ReprOf(a.repr, name)
           given == Truthy(a.module_name)
           key == IF given THEN RegistryKey(a.cls, a.module_name, name)
                  ELSE None
       IN /\ \/ Len(heap) + Cardinality(MayAllocate) < MaxInst
             \/ given /\ key \in DOMAIN registry
          /\ loc' = [loc EXCEPT ![t] =
                 [cls |-> a.cls, name |-> name, repr |-> repr,
                  module_name |-> a.module_name, truthy |-> a.truthy,
                  fn |-> IF given THEN "original" ELSE gpf,
                  registry_key |-> key, sentinel |-> 0, ret |-> 0,
                  args |-> a, orig |-> orig]]
          /\ pc' = [pc EXCEPT ![t] = IF given THEN "get" ELSE "frame"]
    /\ UNCHANGED <<registry, lock, gpf, env, heap, returned>>

\* a call cls(name, repr, module_name, truthy) made from module a.caller
Call(t, a) == Enter(t, a, 0)

\* copy.copy, copy.deepcopy or pickle.loads(pickle.dumps()) of instance i:
\* the call of what __reduce__ returns, made from the copy module
Reduce(t, i) ==
    /\ i \in Registered
    /\ LET r == ReduceOf(heap[i])
       IN Enter(t, Args(r.callable, r.args[1], r.args[2], r.args[3], None,
                        CopyName), i)

\* lines 60-71: run _get_parent_frame, take the module name, build the key;
\* an exception that _get_parent_frame does not handle leaves __new__.
\* The function run is the one found when the call started, so several
\* threads may run the first one; what it returns does not depend on how
\* its rebinding of the global name interleaves with other threads.
\* The __name__ of a calling module is a non-empty string, or is missing.
Frame(t) ==
    /\ pc[t] = "frame"
    /\ LET r == GetParentFrame(loc[t].fn, env, loc[t].args.caller, gpf)
           module_name == InferredModuleName(r.frame)
       IN /\ gpf' = r.gpf
          /\ IF r.exc # "none"
             THEN /\ pc' = [pc EXCEPT ![t] = "raised"]
                  /\ loc' = loc
             ELSE /\ pc' = [pc EXCEPT ![t] = "get"]
                  /\ loc' = [loc EXCEPT ![t].module_name = module_name,
                                        ![t].fn = "original",
                                        ![t].registry_key =
                                            RegistryKey(loc[t].cls, module_name,
                                                        loc[t].name)]
    /\ UNCHANGED <<registry, lock, env, heap, returned>>

\* history: what a returning call adds to `returned`
Record(t, inst) ==
    [cls |-> loc[t].cls, name |-> loc[t].name,
     module_arg |-> loc[t].args.module_name,
     module_name |-> loc[t].module_name, inst |-> inst]

\* Mutant of Get: a cache hit that stores the new call's repr and truthy in
\* the instance it found.
GetOverwrites(t) ==
    /\ pc[t] = "get"
    /\ IF loc[t].registry_key \in DOMAIN registry
       THEN LET sentinel == registry[loc[t].registry_key]
            IN /\ loc' = [loc EXCEPT ![t].sentinel = sentinel,
                                     ![t].ret = sentinel]
               /\ pc' = [pc EXCEPT ![t] = "done"]
               /\ returned' = returned \cup {Record(t, sentinel)}
               /\ heap' = [heap EXCEPT ![sentinel]._repr = loc[t].repr,
                                       ![sentinel]._truthy = loc[t].truthy]
       ELSE /\ pc' = [pc EXCEPT ![t] = "new"]
            /\ UNCHANGED <<loc, returned, heap>>
    /\ UNCHANGED <<registry, lock, gpf, env>>

\* lines 72-74: the unlocked read of the registry, and the fast path
Get(t) ==
    /\ pc[t] = "get"
    /\ IF loc[t].registry_key \in DOMAIN registry
       THEN LET sentinel == registry[loc[t].registry_key]
            IN /\ loc' = [loc EXCEPT ![t].sentinel = sentinel,
                                     ![t].ret = sentinel]
               /\ pc' = [pc EXCEPT ![t] = "done"]
               /\ returned' = returned \cup {Record(t, sentinel)}
       ELSE /\ pc' = [pc EXCEPT ![t] = "new"]
            /\ UNCHANGED <<loc, returned>>
    /\ UNCHANGED <<registry, lock, gpf, env, heap>>

\* line 75: super().__new__(cls), an instance of cls with no attributes yet
\* (made_by is history: the call that built the instance)
New(t) ==
    /\ pc[t] = "new"
    /\ heap' = Append(heap, [cls |-> loc[t].cls, _name |-> Unset,
                             _repr |-> Unset, _module_name |-> Unset,
                             _truthy |-> Unset, made_by |-> loc[t].args])
    /\ loc' = [loc EXCEPT ![t].sentinel = Len(heap) + 1]
    /\ pc' = [pc EXCEPT ![t] = "init"]
    /\ UNCHANGED <<registry, lock, gpf, env, returned>>

\* Mutant of SetAttrs: the assignment of _truthy is missing before the
\* instance is registered.
SetAttrsLeavesTruthy(t) ==
    /\ pc[t] = "init"
    /\ heap' = [heap EXCEPT ![loc[t].sentinel] =
                   [@ EXCEPT !._name = loc[t].name,
                             !._repr = loc[t].repr,
                             !._module_name = loc[t].module_name]]
    /\ pc' = [pc EXCEPT ![t] = "lock"]
    /\ UNCHANGED <<registry, lock, gpf, env, loc, returned>>

\* lines 76-79: the four attribute assignments
SetAttrs(t) ==
    /\ pc[t] = "init"
    /\ heap' = [heap EXCEPT ![loc[t].sentinel] =
                   [@ EXCEPT !._name = loc[t].name,
                             !._repr = loc[t].repr,
                             !._module_name = loc[t].module_name,
                             !._truthy = loc[t].truthy]]
    /\ pc' = [pc EXCEPT ![t] = "lock"]
    /\ UNCHANGED <<registry, lock, gpf, env, loc, returned>>

\* Mutant of Acquire: the thread enters the block without waiting for the
\* lock to be free.
AcquireNoWait(t) ==
    /\ pc[t] = "lock"
    /\ lock' = t
    /\ pc' = [pc EXCEPT ![t] = "setdefault"]
    /\ UNCHANGED <<registry, gpf, env, heap, loc, returned>>

\* line 80: with _lock (acquire)
Acquire(t) ==
    /\ pc[t] = "lock"
    /\ lock = 0
    /\ lock' = t
    /\ pc' = [pc EXCEPT ![t] = "setdefault"]
    /\ UNCHANGED <<registry, gpf, env, heap, loc, returned>>

\* Mutant of SetDefault: d[key] = value, which replaces an existing entry.
SetItem(d, key, value) ==
    (key :> value) @@ d

\* dict.setdefault(key, value): the dict afterwards
SetDefault(d, key, value) ==
    IF key \in DOMAIN d THEN d ELSE (key :> value) @@ d

\* Mutant of Insert: the call returns the instance it built, not the value
\* of setdefault.
InsertReturnsOwn(t) ==
    /\ pc[t] = "setdefault"
    /\ registry' = SetDefault(registry, loc[t].registry_key, loc[t].sentinel)
    /\ loc' = [loc EXCEPT ![t].ret = loc[t].sentinel]
    /\ pc' = [pc EXCEPT ![t] = "unlock"]
    /\ UNCHANGED <<lock, gpf, env, heap, returned>>

\* line 81: _registry.setdefault(registry_key, sentinel), under the lock
Insert(t) ==
    /\ pc[t] = "setdefault"
    /\ registry' = SetDefault(registry, loc[t].registry_key, loc[t].sentinel)
    /\ loc' = [loc EXCEPT ![t].ret = registry'[loc[t].registry_key]]
    /\ pc' = [pc EXCEPT ![t] = "unlock"]
    /\ UNCHANGED <<lock, gpf, env, heap, returned>>

\* Mutant of Release: the call returns without releasing the lock.
ReleaseKeepsLock(t) ==
    /\ pc[t] = "unlock"
    /\ pc' = [pc EXCEPT ![t] = "done"]
    /\ returned' = returned \cup {Record(t, loc[t].ret)}
    /\ UNCHANGED <<registry, lock, gpf, env, heap, loc>>

\* lines 80-81: leaving the with block releases the lock; the call returns
Release(t) ==
    /\ pc[t] = "unlock"
    /\ lock' = 0
    /\ pc' = [pc EXCEPT ![t] = "done"]
    /\ returned' = returned \cup {Record(t, loc[t].ret)}
    /\ UNCHANGED <<registry, gpf, env, heap, loc>>

\* a step of thread t inside __new__, or a copy of an instance begun by t
Step(t) ==
    \/ Frame(t)
    \/ Get(t)
    \/ New(t)
    \/ SetAttrs(t)
    \/ Acquire(t)
    \/ Insert(t)
    \/ Release(t)
    \/ \E i \in 1..Len(heap) : Reduce(t, i)

-----------------------------------------------------------------------------
(* Spec: threads that call the constructor concurrently, on an interpreter   *)
(* with sys._getframe, from module m.                                        *)

ModM == <<"m">>
ModN == <<"n">>

Inputs ==
    { Args(SentinelCls, <<"a">>, None, ModM, None, ModM),
      Args(SentinelCls, <<"a">>, <<"r">>, None, True, ModM),
      Args(SentinelCls, <<"b">>, None, ModM, False, ModM) }

Init == InitIn({"getframe"})

Next ==
    \E t \in Threads :
        \/ \E a \in Inputs : Call(t, a)
        \/ Step(t)

Spec == Init /\ [][Next]_vars

-----------------------------------------------------------------------------
(* FairSpec: threads racing for one registry key under fair scheduling.  A  *)
(* thread inside __new__ that can take a step eventually takes one; a       *)
(* thread waiting for _lock gets it if the lock is free again and again.    *)

\* the positions of a thread inside a call of __new__
InCall(t) ==
    pc[t] \in {"frame", "get", "new", "init", "lock", "setdefault", "unlock"}

\* the steps of __new__ that wait for nothing
Run(t) ==
    \/ Frame(t)
    \/ Get(t)
    \/ New(t)
    \/ SetAttrs(t)
    \/ Insert(t)
    \/ Release(t)

Fairness ==
    \A t \in Threads : WF_vars(Run(t)) /\ SF_vars(Acquire(t))

FairInputs ==
    { Args(SentinelCls, <<"a">>, None, None, None, ModM) }

InitFair == InitIn({"getframe"})

NextFair ==
    \E t \in Threads :
        \/ \E a \in FairInputs : Call(t, a)
        \/ Step(t)

FairSpec == InitFair /\ [][NextFair]_vars /\ Fairness

-----------------------------------------------------------------------------
(* SpecNames: one thread that calls the constructor with and without a       *)
(* module name, from several modules, on each kind of interpreter.           *)

NameInputs ==
    { Args(SentinelCls, <<"a">>, None, ModM, None, ModM),
      Args(SentinelCls, <<"a">>, None, ModN, None, ModM),
      Args(SentinelCls, <<"a">>, None, <<>>, None, ModM),
      Args(SentinelCls, <<"a">>, None, None, None, ModM),
      Args(SentinelCls, <<"a">>, None, None, None, ModN),
      Args(SentinelCls, <<"a">>, None, None, None, None),
      Args(SentinelCls, <<"b">>, None, None, None, ModM) }

InitNames == InitIn(Envs)

NextNames ==
    \E t \in {1} :
        \/ \E a \in NameInputs : Call(t, a)
        \/ Step(t)

SpecNames == InitNames /\ [][NextNames]_vars

-----------------------------------------------------------------------------
(* SpecKinds: one thread that calls the constructor on several classes: the  *)
(* base class, and two class objects made by running one class statement     *)
(* (class FalseySentinel(Sentinel) in a function of module t) twice.         *)

FalseyA == [id |-> 1, module |-> <<"t">>, qualname |-> <<"f", ".", "F">>]
FalseyB == [id |-> 2, module |-> <<"t">>, qualname |-> <<"f", ".", "F">>]
OtherCls == [id |-> 3, module |-> <<"t">>, qualname |-> <<"G">>]

KindInputs ==
    { Args(SentinelCls, <<"a">>, None, ModM, None, ModM),
      Args(FalseyA, <<"a">>, None, ModM, None, ModM),
      Args(FalseyB, <<"a">>, None, ModM, None, ModM),
      Args(OtherCls, <<"a">>, None, ModM, None, ModM),
      Args(FalseyA, <<"a">>, None, None, None, ModM),
      Args(SentinelCls, <<"b">>, None, None, None, ModM) }

InitKinds == InitIn({"getframe"})

NextKinds ==
    \E t \in {1} :
        \/ \E a \in KindInputs : Call(t, a)
        \/ Step(t)

SpecKinds == InitKinds /\ [][NextKinds]_vars

-----------------------------------------------------------------------------
(* SpecAttrs: one thread that calls the constructor with several names,     *)
(* reprs and truthy values.                                                 *)

AttrInputs ==
    { Args(SentinelCls, <<"a">>, None, ModM, None, ModM),
      Args(SentinelCls, <<"e">>, None, None, None, ModM),
      Args(SentinelCls, <<"a">>, <<"r">>, ModM, True, ModM),
      Args(SentinelCls, <<"a">>, <<>>, ModM, False, ModM),
      Args(SentinelCls, <<"b", ".", "c">>, None, ModM, True, ModM),
      Args(SentinelCls, <<"b", ".", "c">>, <<"x", ".", "y">>, ModM, False, ModM),
      Args(SentinelCls, <<"d", ".">>, None, None, False, ModM),
      Args(SentinelCls, None, <<"r">>, None, None, ModM) }

InitAttrs == InitIn({"getframe"})

NextAttrs ==
    \E t \in {1} :
        \/ \E a \in AttrInputs : Call(t, a)
        \/ Step(t)

SpecAttrs == InitAttrs /\ [][NextAttrs]_vars

-----------------------------------------------------------------------------
(* SpecKeys: one thread that calls the constructor with module names and    *)
(* names that hold the '-' the key is joined with.                          *)

KeyInputs ==
    { Args(SentinelCls, <<"z">>, None, <<"x", "-", "y">>, None, ModM),
      Args(SentinelCls, <<"y", "-", "z">>, None, <<"x">>, None, ModM),
      Args(SentinelCls, <<"z">>, None, <<"x">>, None, ModM),
      Args(SentinelCls, <<"y", "-", "z">>, None, None, None, <<"x">>),
      Args(SentinelCls, <<"z">>, None, None, None, ModM) }

InitKeys == InitIn({"getframe"})

NextKeys ==
    \E t \in {1} :
        \/ \E a \in KeyInputs : Call(t, a)
        \/ Step(t)

SpecKeys == InitKeys /\ [][NextKeys]_vars

-----------------------------------------------------------------------------
(* Claims checked under Spec. *)

\* the instances whose four attributes have all been assigned
Initialised ==
    {i \in 1..Len(heap) :
        /\ heap[i]._name # Unset
        /\ heap[i]._repr # Unset
        /\ heap[i]._module_name # Unset
        /\ heap[i]._truthy # Unset}

\* C1: any two calls made with the same class, the same namespace and the
\* same name have returned the very same instance: no two distinct instances
\* were ever returned for one (class, namespace, name) triple.
C1_SameTripleSameInstance ==
    \A r1, r2 \in returned :
        (r1.cls = r2.cls /\ r1.module_name = r2.module_name
            /\ r1.name = r2.name)
        => r1.inst = r2.inst

\* C1 witness: two threads hold the results of calls made with the same
\* triple, one of which found the instance the other call had registered.
C1_Witness ==
    \E t, u \in Threads :
        /\ t # u
        /\ pc[t] = "done" /\ pc[u] = "done"
        /\ loc[t].orig = 0 /\ loc[u].orig = 0
        /\ loc[t].cls = loc[u].cls
        /\ loc[t].module_name = loc[u].module_name
        /\ loc[t].name = loc[u].name
        /\ loc[t].ret = loc[u].ret
        /\ loc[t].ret # 0

\* C2: whatever the interleaving of the unlocked read, the construction and
\* the locked setdefault, the calls for one key that have returned all hold
\* the instance the registry holds for that key, and no instance that lost
\* the race was returned to any caller.
C2_ConcurrentCallsAgree ==
    /\ \A t \in Threads :
          pc[t] = "done"
          => /\ loc[t].registry_key \in DOMAIN registry
             /\ loc[t].ret = registry[loc[t].registry_key]
    /\ \A t, u \in Threads :
          (pc[t] = "done" /\ pc[u] = "done"
              /\ loc[t].registry_key = loc[u].registry_key)
          => loc[t].ret = loc[u].ret
    /\ \A r \in returned : r.inst \in Registered

\* C2 witness: two threads raced for one key, each building an instance, and
\* both calls have returned the same one.
C2_Witness ==
    \E t, u \in Threads :
        /\ t # u
        /\ pc[t] = "done" /\ pc[u] = "done"
        /\ loc[t].registry_key = loc[u].registry_key
        /\ loc[t].ret = loc[u].ret
        /\ \E i, j \in Initialised :
              /\ i # j
              /\ i \in Registered /\ j \notin Registered
              /\ heap[i].made_by = loc[t].args
              /\ heap[j].made_by = loc[u].args

\* C7: an instance enters the registry with the name, repr, module name and
\* truthy of the call that built it, no step changes an attribute of a
\* registered instance, and a call that finds an instance returns it as it
\* is, whatever repr or truthy that call passed.
C7_AttributesFixed ==
    [][ /\ \A i \in Registered : heap'[i] = heap[i]
        /\ \A k \in DOMAIN registry' :
              k \notin DOMAIN registry
              => LET s == heap'[registry'[k]]
                 IN /\ s._name = Str(s.made_by.name)
                    /\ s._repr = ReprOf(s.made_by.repr, Str(s.made_by.name))
                    /\ s._truthy = s.made_by.truthy
                    /\ s._module_name # Unset
                    /\ k = RegistryKey(s.cls, s._module_name, s._name) ]_vars

\* C7 witness: a call that passed another repr and another truthy than the
\* first call for its key has returned the registered instance.
C7_Witness ==
    \E t \in Threads :
        /\ pc[t] = "done"
        /\ loc[t].orig = 0
        /\ loc[t].ret \in Registered
        /\ heap[loc[t].ret]._repr # loc[t].repr
        /\ heap[loc[t].ret]._truthy # loc[t].truthy

-----------------------------------------------------------------------------
(* Claims checked under SpecNames, SpecKinds and SpecAttrs. *)

\* C3: for one class and one name, constructor calls given two different
\* namespace strings return two distinct instances, whatever calls happened
\* before.
C3_NamespacesIsolated ==
    \A r1, r2 \in returned :
        (/\ r1.cls = r2.cls
         /\ r1.name = r2.name
         /\ r1.module_arg # None
         /\ r2.module_arg # None
         /\ r1.module_arg # r2.module_arg)
        => r1.inst # r2.inst

\* C4: for two different classes, calls with the same name and the same
\* namespace return distinct instances.
C4_KindsIsolated ==
    \A r1, r2 \in returned :
        (/\ r1.cls # r2.cls
         /\ r1.name = r2.name
         /\ r1.module_name = r2.module_name)
        => r1.inst # r2.inst

\* C5: the call that __reduce__ prescribes for a sentinel, made by copy or
\* pickle, returns that very sentinel.
C5_ReconstructionIsIdentity ==
    \A t \in Threads :
        (pc[t] = "done" /\ loc[t].orig # 0) => loc[t].ret = loc[t].orig

\* C5 witness: a copy of a sentinel whose module name had been inferred has
\* returned, after a call for another key.
C5_Witness ==
    \E t \in Threads :
        /\ pc[t] = "done"
        /\ loc[t].orig # 0
        /\ loc[t].ret = loc[t].orig
        /\ ~Truthy(heap[loc[t].orig].made_by.module_name)
        /\ Cardinality(Registered) > 1

C8_ReprIsGivenOrDefault ==
    \A i \in Registered :
        LET s == heap[i]
        IN IF s.made_by.repr # None
           THEN Repr(s) = s.made_by.repr
           ELSE Repr(s) = <<"<">> \o LastSegment(Str(s.made_by.name)) \o <<">">>

\* C10: a call given a name never fails and returns a sentinel, with or
\* without a module name and on each kind of interpreter; when no frame can
\* be obtained and no module name was given, the module name used is the
\* one fixed default.
C10_ConstructorNeverFails ==
    \A t \in Threads :
        /\ pc[t] # "raised"
        /\ pc[t] = "done" => loc[t].ret \in Initialised
        /\ (/\ env = "none"
            /\ pc[t] \in {"get", "new", "init", "lock", "setdefault",
                          "unlock", "done"}
            /\ ~Truthy(loc[t].args.module_name))
           => loc[t].module_name = SentinelsName

\* C10 witness: on an interpreter where neither frame lookup works, a call
\* with no module name has returned a sentinel.
C10_Witness ==
    \E t \in Threads :
        /\ env = "none"
        /\ gpf = "none"
        /\ pc[t] = "done"
        /\ loc[t].orig = 0
        /\ ~Truthy(loc[t].args.module_name)
        /\ loc[t].ret \in Registered

-----------------------------------------------------------------------------
(* Claims about the inferred module name, the class of the result and the   *)
(* registry key. *)

\* C11: a call with no module name, made from module M, uses M as the module
\* name and so returns the instance of Sentinel(n, module_name=M), whether
\* the frame comes from sys._getframe(2) or from the traceback fallback, for
\* the first call that switches to the fallback as for later ones.
C11_InferredIsCallersModule ==
    \A t \in Threads :
        (/\ pc[t] = "done"
         /\ env \in {"getframe", "traceback"}
         /\ ~Truthy(loc[t].args.module_name)
         /\ loc[t].args.caller # None)
        => /\ loc[t].module_name = loc[t].args.caller
           /\ loc[t].registry_key =
                  RegistryKey(loc[t].cls, loc[t].args.caller, loc[t].name)

\* C13: the object a call on class C returns is an instance of C.
C13_ResultIsInstanceOfClass ==
    \A r \in returned : heap[r.inst].cls = r.cls

\* C14: two calls whose (class, namespace, name) triples differ in any
\* component never return the same instance, for all strings, those that
\* hold '-' included.
C14_KeyIsTheTriple ==
    \A r1, r2 \in returned :
        <<r1.cls, r1.module_name, r1.name>> # <<r2.cls, r2.module_name, r2.name>>
        => r1.inst # r2.inst

\* C12: bool() of a sentinel created with only a name, such as
\* Sentinel('sent1'), is true.
C12_NameOnlyIsTrue ==
    \A i \in Registered :
        (/\ heap[i].made_by.repr = None
         /\ heap[i].made_by.module_name = None
         /\ heap[i].made_by.truthy = None)
        => (Bool(heap[i]).raises = "none" /\ Bool(heap[i]).value = True)

\* C15: the call that __reduce__ prescribes passes no truthy, yet it always
\* finds the sentinel in the registry and builds no instance, so bool() of
\* what it returns has the outcome (true, false or the error) of the
\* original.
C15_ReconstructionKeepsTruthiness ==
    \A t \in Threads :
        loc[t].orig # 0
        => /\ pc[t] \in {"get", "done"}
           /\ loc[t].args.truthy = None
           /\ pc[t] = "done"
                => Bool(heap[loc[t].ret]) = Bool(heap[loc[t].orig])

\* C15 witness: a copy of a sentinel created with truthy=True or
\* truthy=False has returned, with another sentinel registered as well.
C15_Witness ==
    \E t \in Threads :
        /\ pc[t] = "done"
        /\ loc[t].orig # 0
        /\ heap[loc[t].orig]._truthy \in {True, False}
        /\ Bool(heap[loc[t].ret]).value = heap[loc[t].orig].made_by.truthy
        /\ Cardinality(Registered) > 1

-----------------------------------------------------------------------------
(* Claims about the registry and the lock, checked under Spec. *)

\* the positions of a thread inside the with _lock block
Critical == {"setdefault", "unlock"}

\* C16: the registry only grows and is written once per key: a key that is
\* mapped to an instance is mapped to that instance in every later state.
C16_RegistryWriteOnce ==
    [][ \A k \in DOMAIN registry :
            k \in DOMAIN registry' /\ registry'[k] = registry[k] ]_vars

\* C16 witness: a thread that built an instance for a key that was taken in
\* the meantime has run setdefault, and the registry still holds the first
\* instance.
C16_Witness ==
    \E t \in Threads :
        /\ pc[t] = "unlock"
        /\ loc[t].ret # loc[t].sentinel
        /\ registry[loc[t].registry_key] = loc[t].ret
        /\ \E u \in Threads \ {t} : loc[u].orig # 0 /\ pc[u] = "done"

\* C17: every write to the registry is made by the one thread that holds
\* the lock, and only when that same step finds the key absent; at most one
\* thread is inside the block; the unlocked read changes nothing and only
\* returns an instance that is registered.
C17_WritesUnderLock ==
    [][ /\ registry' # registry
            => \E t \in Threads :
                  /\ lock = t /\ lock' = t
                  /\ pc[t] = "setdefault"
                  /\ loc[t].registry_key \notin DOMAIN registry
                  /\ registry' =
                        (loc[t].registry_key :> loc[t].sentinel) @@ registry
        /\ \A t, u \in Threads :
              (pc'[t] \in Critical /\ pc'[u] \in Critical) => t = u
        /\ \A t \in Threads : pc'[t] \in Critical <=> lock' = t
        /\ \A t \in Threads :
              (pc[t] = "get" /\ pc'[t] # "get")
              => /\ registry' = registry
                 /\ pc'[t] = "done" => loc'[t].ret \in Registered ]_vars

\* C17 witness: one thread is inside the block, having just inserted its
\* instance, while another one waits for the lock with an instance built
\* for the same key.
C17_Witness ==
    \E t, u \in Threads :
        /\ pc[t] = "unlock" /\ lock = t
        /\ loc[t].ret = loc[t].sentinel
        /\ pc[u] = "lock"
        /\ loc[u].registry_key = loc[t].registry_key

\* C19: every instance in the registry has its four attributes assigned,
\* with the values its constructor call computed, from the moment it can be
\* read there.
C19_RegisteredAreInitialised ==
    \A i \in Registered :
        /\ i \in Initialised
        /\ heap[i]._name = Str(heap[i].made_by.name)
        /\ heap[i]._repr = ReprOf(heap[i].made_by.repr, heap[i]._name)
        /\ Truthy(heap[i]._module_name)
        /\ heap[i]._truthy = heap[i].made_by.truthy

\* C19 witness: a thread has returned, from the unlocked read, an instance
\* whose builder is still inside the with block.
C19_Witness ==
    \E t, u \in Threads :
        /\ t # u
        /\ pc[u] = "unlock"
        /\ loc[u].ret = loc[u].sentinel
        /\ pc[t] = "done"
        /\ loc[t].ret = loc[u].sentinel

\* C18: under fair scheduling every constructor call returns, the lock is
\* released after the one setdefault, and the lock is held only inside the
\* with block, never during name coercion, frame inspection or construction.
C18_CallsReturn ==
    /\ \A t \in Threads : InCall(t) ~> pc[t] = "done"
    /\ [](\A t \in Threads : lock = t => pc[t] \in Critical)

\* C18 witness: a thread waits for the lock while another thread, inside
\* the with block, is about to run setdefault.
C18_Witness ==
    \E t, u \in Threads :
        /\ pc[t] = "lock"
        /\ pc[u] = "setdefault"
        /\ lock = u

====
